---- MODULE Spec2Model ----
(***************************************************************************)
(* Model of streamlit_app.py: the batch analysis of an uploaded table of   *)
(* ads.  One script run of main() validates the table, probes the quota,   *)
(* calls the analysis service once per record, paces the calls against the *)
(* quota and stores the normalised table in the session.                   *)
(***************************************************************************)
EXTENDS Integers, Sequences, FiniteSets, TLC

VARIABLES
    logged_in,        \* st.session_state.logged_in
    session_results,  \* st.session_state.results (None or a table)
    displayed,        \* the table written under "Analysis Results:" in this run
    pc,               \* where the script run of main() stands
    df,               \* the uploaded table: its columns and its rows
    rate_limit,       \* first value returned by check_rate_limits()
    interval,         \* second value returned by check_rate_limits()
    index,            \* the loop variable of "for index, row in df.iterrows()"
    results,          \* the local list "results" of main()
    origin,           \* for each entry of results, the record (1-based) it came from
    outcome,          \* per record: Pending, Succeeded, Degraded, Failed, Raised
    attempts,         \* per record: requests.post calls issued in this run
    received,         \* per record: what the last requests.post call brought back
    notice,           \* per record: the st.success / st.warning / st.error emitted
    pausedAfter,      \* the records after which time.sleep was entered in this run
    sleeping,         \* seconds of the time.sleep in progress, 0 when there is none
    probes,           \* check_rate_limits() calls made in this run
    probe_response,   \* what requests.get brought back to check_rate_limits()
    results_at_start, \* st.session_state.results when this run started
    summary,          \* the closing st.success / st.warning of lines 206-208
    nested,           \* a mapping handed to flatten_dict
    flat              \* what flatten_dict returned for it, and for that result

mainVars == <<logged_in, session_results, displayed, pc, df, rate_limit, interval,
              index, results, origin, outcome, attempts, received, notice,
              pausedAfter, sleeping, probes, probe_response, results_at_start,
              summary>>

flattenVars == <<nested, flat>>

vars == <<mainVars, flattenVars>>

(***************************************************************************)
(* Bounds of the model.                                                    *)
(***************************************************************************)
MaxRecords == 3
MaxQuota == 2

(***************************************************************************)
(* Python values.  A JSON / Python value is a tagged record; a dict is the *)
(* sequence of its <<key, value>> pairs in insertion order.                *)
(***************************************************************************)
None == [t |-> "None"]
Str(s) == [t |-> "str", s |-> s]
Num(n) == [t |-> "int", n |-> n]
List(xs) == [t |-> "list", xs |-> xs]
Dict(m) == [t |-> "dict", m |-> m]

Keys(m) == {m[i][1] : i \in DOMAIN m}

HasKey(m, k) == k \in Keys(m)

Get(m, k, default) ==
    IF HasKey(m, k)
    THEN m[CHOOSE i \in DOMAIN m : m[i][1] = k /\ \A j \in DOMAIN m : m[j][1] = k => j <= i][2]
    ELSE default

\* dict(items): a later pair with the same key replaces the value, the key
\* keeps the position of its first insertion.
RECURSIVE DictOf(_)
DictOf(items) ==
    IF items = <<>> THEN <<>>
    ELSE LET n == Len(items)
             init == DictOf(SubSeq(items, 1, n - 1))
             last == items[n]
         IN IF HasKey(init, last[1])
            THEN [i \in DOMAIN init |-> IF init[i][1] = last[1] THEN last ELSE init[i]]
            ELSE Append(init, last)

\* str(v) and repr(v) of Python
RECURSIVE PyRepr(_)
RECURSIVE JoinRepr(_)
RECURSIVE JoinItems(_)
JoinRepr(xs) ==
    IF xs = <<>> THEN ""
    ELSE IF Len(xs) = 1 THEN PyRepr(xs[1])
    ELSE PyRepr(xs[1]) \o ", " \o JoinRepr(Tail(xs))
JoinItems(m) ==
    IF m = <<>> THEN ""
    ELSE LET one == "'" \o m[1][1] \o "': " \o PyRepr(m[1][2])
         IN IF Len(m) = 1 THEN one ELSE one \o ", " \o JoinItems(Tail(m))
PyRepr(v) ==
    CASE v.t = "str" -> "'" \o v.s \o "'"
      [] v.t = "int" -> ToString(v.n)
      [] v.t = "None" -> "None"
      [] v.t = "list" -> "[" \o JoinRepr(v.xs) \o "]"
      [] v.t = "dict" -> "{" \o JoinItems(v.m) \o "}"

PyStr(v) == IF v.t = "str" THEN v.s ELSE PyRepr(v)

(***************************************************************************)
(* json.loads on the payload texts the service is taken to return.         *)
(***************************************************************************)
JSONDecodeError == [t |-> "JSONDecodeError"]

Contents ==
    { "{\"title_score\": 8}",
      "{\"x\": \"a\", \"y\": [\"p\", \"q\"], \"details\": {\"sentiment\": {\"score\": 5}}}",
      "not json",
      "[1, 2]",
      "\"hi\"",
      "7",
      "null" }

JsonLoads(content) ==
    CASE content = "{\"title_score\": 8}" ->
            Dict(<< <<"title_score", Num(8)>> >>)
      [] content = "{\"x\": \"a\", \"y\": [\"p\", \"q\"], \"details\": {\"sentiment\": {\"score\": 5}}}" ->
            Dict(<< <<"x", Str("a")>>,
                    <<"y", List(<<Str("p"), Str("q")>>)>>,
                    <<"details",
                      Dict(<< <<"sentiment", Dict(<< <<"score", Num(5)>> >>)>> >>)>> >>)
      [] content = "[1, 2]" -> List(<<Num(1), Num(2)>>)
      [] content = "\"hi\"" -> Str("hi")
      [] content = "7" -> Num(7)
      [] content = "null" -> None
      [] OTHER -> JSONDecodeError

(***************************************************************************)
(* The quota probe: check_rate_limits().                                   *)
(***************************************************************************)
Return(v) == [kind |-> "return", value |-> v, exc |-> ""]
Raise(e) == [kind |-> "raise", value |-> None, exc |-> e]

\* Subclasses of requests.exceptions.RequestException the calls can raise.
RequestException == {"ConnectionError", "Timeout", "HTTPError"}

Intervals == {"10s"}

\* What requests.get() on /auth/key can produce: an exception, or a
\* response with a status and a payload that has data.rate_limit or not.
ProbeResponse(exc, status, wellformed, requests, itv) ==
    [exc |-> exc, status |-> status, wellformed |-> wellformed,
     requests |-> requests, interval |-> itv]

\* No quota response has arrived in this run.
NoProbe == ProbeResponse("", 0, FALSE, 0, "")

ProbeResponses ==
    {ProbeResponse("", 200, TRUE, m, i) : m \in 1..MaxQuota, i \in Intervals}
    \cup {ProbeResponse("", 200, FALSE, 0, "")}
    \cup {ProbeResponse("", s, FALSE, 0, "") : s \in {401, 500}}
    \cup {ProbeResponse("ConnectionError", 0, FALSE, 0, "")}

\* check_rate_limits falling back to a default quota on an error status
check_rate_limits_default(resp) ==
    IF resp.exc # "" THEN Raise(resp.exc)
    ELSE IF resp.status = 200
         THEN IF resp.wellformed
              THEN Return(<<Num(resp.requests), Str(resp.interval)>>)
              ELSE Raise("KeyError")
         ELSE Return(<<Num(1), Str("10s")>>)

check_rate_limits(resp) ==
    IF resp.exc # "" THEN Raise(resp.exc)
    ELSE IF resp.status = 200
         THEN IF resp.wellformed
              THEN Return(<<Num(resp.requests), Str(resp.interval)>>)
              ELSE Raise("KeyError")
         ELSE Return(<<None, None>>)

\* int(interval[:-1])
IntervalSeconds(itv) ==
    CASE itv = "10s" -> 10
      [] itv = "60s" -> 60

(***************************************************************************)
(* One analysis call: the body of analyze_ad_copy and its @retry wrapper.  *)
(***************************************************************************)
Response(exc, status, choices, content) ==
    [exc |-> exc, status |-> status, choices |-> choices, content |-> content]

\* What requests.post() can produce: a connection error or timeout, an
\* error status, a 200 body without 'choices', or a 200 body whose
\* choices[0].message.content is one of Contents.
Responses ==
    {Response(e, 0, FALSE, "") : e \in {"ConnectionError", "Timeout"}}
    \cup {Response("", s, FALSE, "") : s \in {500, 503}}
    \cup {Response("", 200, FALSE, "")}
    \cup {Response("", 200, TRUE, c) : c \in Contents}

ParsingErrorText == "Failed to parse API response as JSON"

\* the coercion of list values only, other values left as they are
CoerceValue_lists(v) ==
    IF v.t = "list" THEN List([i \in DOMAIN v.xs |-> Str(PyStr(v.xs[i]))])
    ELSE v

\* lines 77-81: lists become lists of str, other non-str values become str
CoerceValue(v) ==
    IF v.t = "list" THEN List([i \in DOMAIN v.xs |-> Str(PyStr(v.xs[i]))])
    ELSE IF v.t # "str" THEN Str(PyStr(v))
    ELSE v

Coerce(m) == [i \in DOMAIN m |-> <<m[i][1], CoerceValue(m[i][2])>>]

\* the inner try without its except json.JSONDecodeError clause
ParseContent_uncaught(content) ==
    LET parsed_content == JsonLoads(content)
    IN IF parsed_content = JSONDecodeError
       THEN Raise("JSONDecodeError")
       ELSE IF parsed_content.t # "dict"
            THEN Raise("AttributeError")
            ELSE Return(Dict(Coerce(parsed_content.m)))

\* lines 73-88: the inner try around json.loads
ParseContent(content) ==
    LET parsed_content == JsonLoads(content)
    IN IF parsed_content = JSONDecodeError
       THEN Return(Dict(<< <<"raw_content", Str(content)>>,
                           <<"parsing_error", Str(ParsingErrorText)>> >>))
       ELSE IF parsed_content.t # "dict"
            THEN Raise("AttributeError")      \* no .items() on a non-dict
            ELSE Return(Dict(Coerce(parsed_content.m)))

\* lines 33-88: the outer try body
TryBody(resp) ==
    IF resp.exc # "" THEN Raise(resp.exc)
    ELSE IF resp.status >= 400 THEN Raise("HTTPError")  \* raise_for_status()
    ELSE IF ~resp.choices THEN Raise("KeyError")
    ELSE ParseContent(resp.content)

\* the decorated function without its except RequestException clause
analyze_ad_copy_uncaught(resp) == TryBody(resp)

\* lines 32-92: one execution of the decorated function
analyze_ad_copy(resp) ==
    LET r == TryBody(resp)
    IN IF r.kind = "raise" /\ r.exc \in RequestException
       THEN Return(None)                      \* except RequestException: return None
       ELSE r

\* stop=stop_after_attempt(3)
StopAfterAttempt == 3

\* a wrapper that also retries a None result, with an off-by-one stop
ShouldRetry_none(r, attempt_number) ==
    /\ \/ r.kind = "raise" /\ r.exc \in RequestException
       \/ r.kind = "return" /\ r.value = None
    /\ attempt_number <= StopAfterAttempt

\* a wrapper that also retries a result carrying a parsing error
ShouldRetry_degraded(r, attempt_number) ==
    /\ \/ r.kind = "raise" /\ r.exc \in RequestException
       \/ r.kind = "return" /\ r.value # None /\ HasKey(r.value.m, "parsing_error")
    /\ attempt_number < StopAfterAttempt

\* @retry: a further attempt is made when the function raised an exception
\* of the retried type and the stop condition does not hold yet.
ShouldRetry(r, attempt_number) ==
    /\ r.kind = "raise"
    /\ r.exc \in RequestException
    /\ attempt_number < StopAfterAttempt

\* What the wrapper hands to its caller once it stops retrying.
RetryResult(r) ==
    IF r.kind = "raise" /\ r.exc \in RequestException
    THEN Raise("RetryError")
    ELSE r

(***************************************************************************)
(* validate_columns, flatten_dict and the normalisation of main().         *)
(***************************************************************************)
expected_columns == <<"title", "snippet", "displayed_link">>

\* validate_columns forgetting the last expected column
validate_columns_two(columns) ==
    SelectSeq(SubSeq(expected_columns, 1, 2), LAMBDA col : col \notin columns)

validate_columns(columns) ==
    SelectSeq(expected_columns, LAMBDA col : col \notin columns)

\* flatten_dict taking the items of a nested dict without recursing into it
RECURSIVE ShallowItems(_, _, _)
ShallowItems(d, parent_key, sep) ==
    IF d = <<>> THEN <<>>
    ELSE LET k == d[1][1]
             v == d[1][2]
             new_key == IF parent_key # "" THEN parent_key \o sep \o k ELSE k
             here == IF v.t = "dict"
                     THEN [i \in DOMAIN v.m |-> <<new_key \o sep \o v.m[i][1], v.m[i][2]>>]
                     ELSE << <<new_key, v>> >>
         IN here \o ShallowItems(Tail(d), parent_key, sep)
flatten_dict_shallow(d, parent_key, sep) == DictOf(ShallowItems(d, parent_key, sep))

RECURSIVE flatten_dict(_, _, _)
RECURSIVE FlattenItems(_, _, _)
FlattenItems(d, parent_key, sep) ==
    IF d = <<>> THEN <<>>
    ELSE LET k == d[1][1]
             v == d[1][2]
             new_key == IF parent_key # "" THEN parent_key \o sep \o k ELSE k
             here == IF v.t = "dict"
                     THEN flatten_dict(v.m, new_key, sep)
                     ELSE << <<new_key, v>> >>
         IN here \o FlattenItems(Tail(d), parent_key, sep)
flatten_dict(d, parent_key, sep) == DictOf(FlattenItems(d, parent_key, sep))

RECURSIVE JoinStrings(_)
JoinStrings(xs) ==
    IF xs = <<>> THEN ""
    ELSE IF Len(xs) = 1 THEN xs[1].s
    ELSE xs[1].s \o ", " \o JoinStrings(Tail(xs))

\* the key set taken from the first row only
Unify_first(rows) ==
    LET all_keys == Keys(rows[1])
    IN [i \in DOMAIN rows |->
            [key \in all_keys |-> Get(rows[i], key, Str(""))]]

\* lines 188-195: every row rewritten over the union of all keys, with ''
\* for the keys it lacks
Unify(rows) ==
    LET all_keys == UNION {Keys(rows[i]) : i \in DOMAIN rows}
    IN [i \in DOMAIN rows |->
            [key \in all_keys |-> Get(rows[i], key, Str(""))]]

\* the cell pandas puts where a row has no value for a column
NaN == [t |-> "float"]

\* line 198: pd.DataFrame(list of dicts)
DataFrame(rows) ==
    LET columns == UNION {DOMAIN rows[i] : i \in DOMAIN rows}
    IN [columns |-> columns,
        rows |-> [i \in DOMAIN rows |->
                    [c \in columns |-> IF c \in DOMAIN rows[i] THEN rows[i][c] ELSE NaN]]]

\* lines 186-203: the table built from a non-empty list of results
NormalizeResults(res) ==
    LET flattened_results == [i \in DOMAIN res |-> flatten_dict(res[i].m, "", "_")]
        results_df == DataFrame(Unify(flattened_results))
        listColumns ==
            {c \in results_df.columns :
                \E i \in DOMAIN res : results_df.rows[i][c].t = "list"}
        cell(x) == IF x.t = "list" THEN Str(JoinStrings(x.xs)) ELSE x
    IN [columns |-> results_df.columns,
        rows |-> [i \in DOMAIN res |->
                    [c \in results_df.columns |->
                        IF c \in listColumns
                        THEN cell(results_df.rows[i][c])
                        ELSE results_df.rows[i][c]]]]

(***************************************************************************)
(* The uploaded tables.                                                    *)
(***************************************************************************)
ColumnSets ==
    { {"title", "snippet", "displayed_link"},
      {"Title", "snippet", "displayed_link"},
      {"title", "snippet"} }

\* pd.read_csv: n rows under the given columns, indexed 0..n-1
Table(columns, n) ==
    [columns |-> columns,
     rows |-> [k \in 1..n |-> [c \in columns |-> c \o " " \o ToString(k)]]]

NoTable == Table({}, 0)

NoResponse == "none"

\* What a requests.post call brought back, as far as main() can tell apart:
\* a failed call, a body without choices, or the returned payload text.
Received(resp) ==
    IF resp.exc # "" \/ resp.status >= 400 THEN "call failed"
    ELSE IF ~resp.choices THEN "no choices"
    ELSE resp.content

(***************************************************************************)
(* The state machine.                                                      *)
(***************************************************************************)
\* No closing message has been written in this run.
NoSummary == [kind |-> "none", analyzed |-> 0, total |-> 0]

\* flatten_dict has not been applied to the mapping at hand.
NotFlattened == [done |-> FALSE, of |-> <<>>, once |-> <<>>, twice |-> <<>>]

Init ==
    /\ logged_in = FALSE
    /\ session_results = None
    /\ displayed = None
    /\ pc = "idle"
    /\ df = NoTable
    /\ rate_limit = None
    /\ interval = None
    /\ index = 0
    /\ results = <<>>
    /\ origin = <<>>
    /\ outcome = <<>>
    /\ attempts = <<>>
    /\ received = <<>>
    /\ notice = <<>>
    /\ pausedAfter = {}
    /\ sleeping = 0
    /\ probes = 0
    /\ probe_response = NoProbe
    /\ results_at_start = None
    /\ summary = NoSummary
    /\ nested = <<>>
    /\ flat = NotFlattened

\* No script run is in progress: the page waits for the user.
Idle == pc \in {"idle", "rejected", "no_quota", "error", "done"}

\* A rerun of the script starts from fresh locals.
FreshLocals(table) ==
    /\ df' = table
    /\ rate_limit' = None
    /\ interval' = None
    /\ index' = 0
    /\ results' = <<>>
    /\ origin' = <<>>
    /\ outcome' = [k \in DOMAIN table.rows |-> "Pending"]
    /\ attempts' = [k \in DOMAIN table.rows |-> 0]
    /\ received' = [k \in DOMAIN table.rows |-> NoResponse]
    /\ notice' = [k \in DOMAIN table.rows |-> "none"]
    /\ pausedAfter' = {}
    /\ sleeping' = 0
    /\ probes' = 0
    /\ probe_response' = NoProbe
    /\ displayed' = None
    /\ summary' = NoSummary

\* lines 120-132: the login form, with a username and password that match
Login ==
    /\ Idle
    /\ ~logged_in
    /\ logged_in' = TRUE
    /\ pc' = "idle"
    /\ FreshLocals(NoTable)
    /\ results_at_start' = session_results
    /\ UNCHANGED session_results
    /\ UNCHANGED flattenVars

\* The page left by the last script run has the sidebar's Logout button:
\* the run reached line 233. A run that returned at line 151 (missing
\* columns) or at line 159 (quota check failed) did not; a run ended by the
\* except clause of line 224 went on to line 233.
LogoutRendered == pc \in {"idle", "error", "done"}

\* lines 135-155, 227-233: a script run with no button pressed, after the
\* user changed or cleared the file or the search term. Without both inputs
\* (table = NoTable) line 140 is false; with both, the columns are validated
\* and line 155 is false. Nothing under "Analysis Results:" is written.
Rerun(table) ==
    /\ Idle
    /\ logged_in
    /\ FreshLocals(table)
    /\ results_at_start' = session_results
    /\ pc' = IF table # NoTable /\ validate_columns(table.columns) # <<>>
             THEN "rejected"
             ELSE "idle"
    /\ UNCHANGED <<logged_in, session_results>>
    /\ UNCHANGED flattenVars

\* lines 233-236: the logout button, on a page that has it
Logout ==
    /\ LogoutRendered
    /\ logged_in
    /\ logged_in' = FALSE
    /\ session_results' = None
    /\ pc' = "idle"
    /\ FreshLocals(NoTable)
    /\ results_at_start' = None
    /\ UNCHANGED flattenVars

\* The page left by the last script run has the "Analyze Ads" button: the
\* run read a table whose columns passed validate_columns and reached
\* line 155.
AnalyzeRendered ==
    /\ logged_in
    /\ pc \in {"idle", "no_quota", "error", "done"}
    /\ validate_columns(df.columns) = <<>>

\* lines 135-157: "Analyze Ads" is pressed on a page that has it; the script
\* runs again over the page's table, passes the validation and sends the
\* quota request.
StartRun ==
    /\ AnalyzeRendered
    /\ FreshLocals(df)
    /\ results_at_start' = session_results
    /\ pc' = "probe"
    /\ UNCHANGED <<logged_in, session_results>>
    /\ UNCHANGED flattenVars

\* the normalisation without its "if results:" guard, raising on an empty list
FinishBatch_unguarded(res) ==
    IF res = <<>>
    THEN /\ pc' = "error"
         /\ UNCHANGED <<session_results, displayed, summary>>
    ELSE /\ session_results' = NormalizeResults(res)
         /\ summary' = [kind |-> "success", analyzed |-> Len(res), total |-> Len(df.rows)]
         /\ displayed' = session_results'
         /\ pc' = "done"

\* lines 184-222: after the loop, the table is stored when results is not
\* empty, and whatever the session holds is displayed.
FinishBatch(res) ==
    /\ session_results' = IF res # <<>> THEN NormalizeResults(res) ELSE session_results
    /\ summary' = IF res # <<>>
                  THEN [kind |-> "success", analyzed |-> Len(res), total |-> Len(df.rows)]
                  ELSE [kind |-> "warning", analyzed |-> 0, total |-> 0]
    /\ displayed' = session_results'
    /\ pc' = "done"

\* lines 157-163: the quota response arrives; the loop starts or the run ends
Probe(resp) ==
    /\ pc = "probe"
    /\ probes' = probes + 1
    /\ probe_response' = resp
    /\ LET r == check_rate_limits(resp)
       IN IF r.kind = "raise"
          THEN /\ pc' = "error"                 \* except Exception, line 224
               /\ UNCHANGED <<rate_limit, interval, session_results, displayed, summary>>
          ELSE IF r.value[1] = None
          THEN /\ pc' = "no_quota"              \* return, line 159
               /\ UNCHANGED <<rate_limit, interval, session_results, displayed, summary>>
          ELSE /\ rate_limit' = r.value[1]
               /\ interval' = r.value[2]
               /\ IF df.rows = <<>>
                  THEN FinishBatch(results)
                  ELSE /\ pc' = "call"
                       /\ UNCHANGED <<session_results, displayed, summary>>
    /\ UNCHANGED <<logged_in, df, index, results, origin, outcome, attempts,
                   received, notice, pausedAfter, sleeping, results_at_start>>
    /\ UNCHANGED flattenVars

\* results.append(analysis) only for an analysis without a parsing error
Accumulate_parsed(acc, item, analysis) ==
    IF analysis # None /\ ~HasKey(analysis.m, "parsing_error")
    THEN Append(acc, item)
    ELSE acc

\* lines 169-171: results.append(analysis) unless analysis is None
Accumulate(acc, item, analysis) ==
    IF analysis # None THEN Append(acc, item) ELSE acc

\* lines 169-177: what main() makes of the value analyze_ad_copy returned
OutcomeOf(analysis) ==
    IF analysis = None THEN "Failed"
    ELSE IF HasKey(analysis.m, "parsing_error") THEN "Degraded"
    ELSE "Succeeded"

NoticeOf(analysis) ==
    IF analysis = None THEN "error"
    ELSE IF HasKey(analysis.m, "parsing_error") THEN "warning"
    ELSE "success"

\* the pacing test on index in place of index + 1
ShouldPause_index(idx, limit, len) ==
    idx % limit.n = 0 /\ idx < len - 1

\* line 180
ShouldPause(idx, limit, len) ==
    (idx + 1) % limit.n = 0 /\ idx < len - 1

\* lines 163-182: one requests.post for the record of this iteration, and
\* everything main() does until it next waits: a further attempt, or the
\* handling of the returned value, the pacing check and, after the last
\* record, the normalisation.
Attempt(resp) ==
    /\ pc = "call"
    /\ LET k == index + 1
           n == Len(df.rows)
           attempt_number == attempts[k] + 1
           r == analyze_ad_copy(resp)
       IN /\ attempts' = [attempts EXCEPT ![k] = attempt_number]
          /\ received' = [received EXCEPT ![k] = Received(resp)]
          /\ IF ShouldRetry(r, attempt_number)
             THEN /\ pc' = "call"
                  /\ UNCHANGED <<index, results, origin, outcome, notice,
                                 pausedAfter, sleeping, session_results, displayed, summary>>
             ELSE IF RetryResult(r).kind = "raise"
             THEN /\ pc' = "error"              \* except Exception, line 224
                  /\ outcome' = [outcome EXCEPT ![k] = "Raised"]
                  /\ UNCHANGED <<index, results, origin, notice, pausedAfter,
                                 sleeping, session_results, displayed, summary>>
             ELSE LET analysis == RetryResult(r).value
                  IN /\ results' = Accumulate(results, analysis, analysis)
                     /\ origin' = Accumulate(origin, k, analysis)
                     /\ outcome' = [outcome EXCEPT ![k] = OutcomeOf(analysis)]
                     /\ notice' = [notice EXCEPT ![k] = NoticeOf(analysis)]
                     /\ IF ShouldPause(index, rate_limit, n)
                        THEN /\ pc' = "paused"
                             /\ pausedAfter' = pausedAfter \cup {k}
                             /\ sleeping' = IntervalSeconds(interval.s)
                             /\ UNCHANGED <<index, session_results, displayed, summary>>
                        ELSE /\ UNCHANGED <<pausedAfter, sleeping>>
                             /\ IF index < n - 1
                                THEN /\ index' = index + 1
                                     /\ pc' = "call"
                                     /\ UNCHANGED <<session_results, displayed, summary>>
                                ELSE /\ index' = index
                                     /\ FinishBatch(results')
    /\ UNCHANGED <<logged_in, df, rate_limit, interval, probes, probe_response,
                   results_at_start>>
    /\ UNCHANGED flattenVars

\* line 182: time.sleep returns and the loop goes to the next record
Resume ==
    /\ pc = "paused"
    /\ sleeping' = 0
    /\ index' = index + 1
    /\ pc' = "call"
    /\ UNCHANGED <<logged_in, session_results, displayed, df, rate_limit,
                   interval, results, origin, outcome, attempts, received,
                   notice, pausedAfter, probes, probe_response,
                   results_at_start, summary>>
    /\ UNCHANGED flattenVars

Next ==
    \/ Login
    \/ Logout
    \/ StartRun
    \/ \E table \in {NoTable} \cup {Table(columns, n) : columns \in ColumnSets,
                                                        n \in 0..MaxRecords} :
          Rerun(table)
    \/ \E resp \in ProbeResponses : Probe(resp)
    \/ \E resp \in Responses : Attempt(resp)
    \/ Resume

Spec == Init /\ [][Next]_vars

TypeOK ==
    /\ logged_in \in BOOLEAN
    /\ pc \in {"idle", "rejected", "probe", "no_quota", "call", "paused", "error", "done"}
    /\ index \in 0..MaxRecords
    /\ Len(results) = Len(origin)

(***************************************************************************)
(* Properties.                                                             *)
(***************************************************************************)
N == Len(df.rows)

Terminal == {"Succeeded", "Degraded", "Failed"}

FailedRecords == {k \in DOMAIN outcome : outcome[k] = "Failed"}

NotJson(text) == text \in Contents /\ JsonLoads(text) = JSONDecodeError

JsonNotMapping(text) ==
    /\ text \in Contents
    /\ JsonLoads(text) # JSONDecodeError
    /\ JsonLoads(text).t # "dict"

\* The loop has left record k behind: it stands at a later record, sleeps
\* after k, or the batch is finished.
MovedPast(k) ==
    \/ index + 1 > k
    \/ pc = "paused" /\ index + 1 = k
    \/ pc = "done" /\ k = N

\* C1: a batch of N valid records that runs to completion holds exactly N
\* rows, and the k-th row belongs to the k-th input record, Failed records
\* included.
C1_RowPerRecord ==
    pc = "done" =>
        /\ Len(results) = N
        /\ \A k \in 1..N : origin[k] = k

\* C2 as stated: a Failed outcome is recorded only after 3 failed attempts
\* for the record (a transient failure is followed by a further attempt).
C2_FailedAfterThreeAttempts ==
    \A k \in DOMAIN outcome :
        outcome[k] = "Failed" => attempts[k] = StopAfterAttempt

\* A step taken while the loop runs leaves the request count and the
\* outcome of every record with a terminal outcome as they are.
TerminalStays ==
    pc \in {"call", "paused"} =>
        \A k \in DOMAIN outcome :
            outcome[k] \in Terminal =>
                (attempts'[k] = attempts[k] /\ outcome'[k] = outcome[k])

\* C3: no record is ever sent more than 3 requests, and once a record has a
\* terminal outcome no further request is issued for it while the batch
\* runs.
C3_BoundedAttempts ==
    /\ [](\A k \in DOMAIN attempts : attempts[k] <= StopAfterAttempt)
    /\ [][TerminalStays]_vars

C3_Witness ==
    /\ pc = "call"
    /\ index = 2
    /\ outcome[1] = "Failed"
    /\ outcome[2] = "Succeeded"
    /\ attempts[1] = 1
    /\ attempts[2] = 1
    /\ attempts[3] = 0

\* C4: a record whose request brought back a response is sent exactly one
\* request, and when the returned payload is not valid JSON its outcome is
\* Degraded.
C4_NoRetryOnReturned ==
    \A k \in DOMAIN received :
        received[k] \notin {NoResponse, "call failed"} =>
            /\ attempts[k] = 1
            /\ NotJson(received[k]) => outcome[k] = "Degraded"

C4_Witness ==
    \E k \in DOMAIN received :
        /\ received[k] = "not json"
        /\ attempts[k] = 1
        /\ outcome[k] = "Degraded"
        /\ pc = "done"

\* C5: a returned payload that fails JSON parsing gives a Degraded outcome
\* whose row carries the parsing_error marker and the raw text unchanged;
\* no exception ends the run at that record, the row is in the results and
\* the loop goes on past the record.
C5_DegradedKeepsRawText ==
    \A k \in DOMAIN received :
        NotJson(received[k]) =>
            /\ outcome[k] = "Degraded"
            /\ notice[k] = "warning"
            /\ \E i \in DOMAIN origin :
                  /\ origin[i] = k
                  /\ HasKey(results[i].m, "parsing_error")
                  /\ Get(results[i].m, "raw_content", None) = Str(received[k])
                  /\ pc = "done" =>
                        session_results.rows[i]["raw_content"] = Str(received[k])
            /\ pc # "error" \/ index + 1 # k
            /\ MovedPast(k)

C5_Witness ==
    /\ N = 2
    /\ received[1] = "not json"
    /\ outcome[1] = "Degraded"
    /\ outcome[2] = "Succeeded"
    /\ Len(results) = 2

\* C6 as stated: a returned payload that is valid JSON but not a mapping
\* gives a Degraded outcome and does not end the run.
C6_NonMappingDegrades ==
    \A k \in DOMAIN received :
        JsonNotMapping(received[k]) =>
            /\ outcome[k] = "Degraded"
            /\ pc # "error"

\* C7: the loop sleeps after record k exactly when k is a multiple of the
\* quota and k < N, whatever the outcome of record k; the sleep lasts the
\* quota's interval and no request for record k+1 is issued before it ends;
\* a finished batch of N >= 1 records has slept floor((N-1)/M) times, and
\* not at all when N = M.
C7_Pacing ==
    /\ \A k \in DOMAIN outcome :
          outcome[k] \in Terminal =>
              (k \in pausedAfter <=> (k % rate_limit.n = 0 /\ k < N))
    /\ \A k \in pausedAfter : outcome[k] \in Terminal
    /\ pc = "paused" =>
          /\ index + 1 \in pausedAfter
          /\ sleeping = IntervalSeconds(interval.s)
          /\ attempts[index + 2] = 0
    /\ pc # "paused" => sleeping = 0
    /\ (pc = "done" /\ N >= 1) =>
          /\ Cardinality(pausedAfter) = (N - 1) \div rate_limit.n
          /\ N = rate_limit.n => pausedAfter = {}

C7_Witness ==
    /\ pc = "paused"
    /\ rate_limit = Num(2)
    /\ N = 3
    /\ index = 1
    /\ outcome[1] = "Failed"
    /\ outcome[2] = "Degraded"
    /\ pausedAfter = {2}

\* The quota response of this run is a failure: an exception, a status
\* other than 200 or a payload without data.rate_limit.
ProbeFailed ==
    /\ probes > 0
    /\ \/ probe_response.exc # ""
       \/ probe_response.status # 200
       \/ ~probe_response.wellformed

\* C8: the quota is probed at most once in a run and exactly once before
\* any analysis request; when the probe fails no analysis request is
\* issued, no result is produced and the stored results stay as they were.
C8_ProbeGate ==
    /\ probes <= 1
    /\ pc \in {"call", "paused", "done"} => probes = 1
    /\ (\E k \in DOMAIN attempts : attempts[k] > 0) => (probes = 1 /\ ~ProbeFailed)
    /\ ProbeFailed =>
          /\ pc \in {"no_quota", "error"}
          /\ \A k \in DOMAIN attempts : attempts[k] = 0
          /\ results = <<>>
          /\ session_results = results_at_start
          /\ displayed = None

C8_Witness ==
    /\ ProbeFailed
    /\ pc = "no_quota"
    /\ N = 2
    /\ session_results # None

\* C9: a table without one of title, snippet, displayed_link (compared
\* case-sensitively) is rejected before the batch starts: no quota probe,
\* no analysis request, stored results unchanged.
C9_MissingColumnsReject ==
    (pc # "idle" /\ ~({"title", "snippet", "displayed_link"} \subseteq df.columns)) =>
        /\ pc = "rejected"
        /\ probes = 0
        /\ \A k \in DOMAIN attempts : attempts[k] = 0
        /\ results = <<>>
        /\ session_results = results_at_start
        /\ displayed = None

C9_Witness ==
    /\ pc = "rejected"
    /\ "Title" \in df.columns
    /\ N = 2
    /\ session_results # None

\* C10: a failed call for record k gives record k the Failed outcome and
\* an error notice and does not end the run: the loop goes on past k, the
\* records are attempted in input order, and a finished batch has
\* attempted every record.
C10_FailureIsLocal ==
    /\ \A k \in DOMAIN received :
          received[k] = "call failed" =>
              /\ outcome[k] = "Failed"
              /\ notice[k] = "error"
              /\ pc # "error" \/ index + 1 # k
              /\ MovedPast(k)
    /\ \A j \in DOMAIN attempts :
          attempts[j] > 0 => \A i \in 1..(j - 1) : outcome[i] \in Terminal
    /\ pc = "done" => \A k \in DOMAIN attempts : attempts[k] >= 1

C10_Witness ==
    /\ N = 3
    /\ received[1] = "call failed"
    /\ outcome[1] = "Failed"
    /\ outcome[2] = "Succeeded"
    /\ outcome[3] = "Failed"
    /\ pc = "done"

\* The run passed both gates: the columns are there and the quota is known.
PassedGates == validate_columns(df.columns) = <<>> /\ rate_limit # None

\* C11 as stated: a batch that passed the two gates is never ended by what
\* the service answers for one record; it goes on to its finalized result.
C11_NoPerRecordAbort ==
    PassedGates => pc # "error"

\* A row of the table as a dict: its <<column, cell>> pairs in some order.
RECURSIVE ItemsOf(_)
ItemsOf(row) ==
    IF DOMAIN row = {} THEN <<>>
    ELSE LET c == CHOOSE c \in DOMAIN row : TRUE
         IN <<<<c, row[c]>>>> \o ItemsOf([x \in DOMAIN row \ {c} |-> row[x]])

\* The rows accumulated by the loop, flattened as line 186 flattens them.
FlattenedResults == [i \in DOMAIN results |-> flatten_dict(results[i].m, "", "_")]

AccumulatedKeys == UNION {Keys(FlattenedResults[i]) : i \in DOMAIN results}

TitleScoreText == "{\"title_score\": 8}"

NestedText ==
    "{\"x\": \"a\", \"y\": [\"p\", \"q\"], \"details\": {\"sentiment\": {\"score\": 5}}}"

\* C12: in the table of a finished batch every row has the same key set,
\* the union of the keys of all accumulated rows; a key a row lacked holds
\* the empty string; unifying the rows of the table again changes nothing.
C12_SchemaUnified ==
    (pc = "done" /\ results # <<>>) =>
        /\ session_results.columns = AccumulatedKeys
        /\ \A i \in DOMAIN session_results.rows :
              /\ DOMAIN session_results.rows[i] = AccumulatedKeys
              /\ \A key \in AccumulatedKeys :
                    /\ session_results.rows[i][key] # NaN
                    /\ key \notin Keys(FlattenedResults[i]) =>
                          session_results.rows[i][key] = Str("")
                    /\ (key \in Keys(FlattenedResults[i])
                        /\ Get(FlattenedResults[i], key, None).t = "str") =>
                          session_results.rows[i][key] = Get(FlattenedResults[i], key, None)
        /\ Unify([i \in DOMAIN session_results.rows |->
                    ItemsOf(session_results.rows[i])]) = session_results.rows

C12_Witness ==
    /\ pc = "done"
    /\ N = 2
    /\ received[1] = TitleScoreText
    /\ received[2] = NestedText
    /\ session_results.columns = {"title_score", "x", "y", "details"}
    /\ session_results.rows[1]["x"] = Str("")
    /\ session_results.rows[2]["title_score"] = Str("")
    /\ session_results.rows[2]["x"] = Str("a")

\* C13 as stated: every row of the finished table carries the title, the
\* snippet and the displayed_link of the record it came from, next to the
\* fields of the analysis.
C13_RowCarriesRecordFields ==
    (pc = "done" /\ results # <<>>) =>
        \A i \in DOMAIN session_results.rows :
            \A c \in {"title", "snippet", "displayed_link"} :
                /\ c \in DOMAIN session_results.rows[i]
                /\ session_results.rows[i][c] = Str(df.rows[origin[i]][c])

\* Every record of the batch has been sent its request and every call failed.
AllCallsFailed ==
    /\ N >= 1
    /\ \A k \in DOMAIN received : received[k] = "call failed"

\* C14: a batch in which every record ends Failed still runs to its end
\* without an error: every record is Failed, the run is finished, the
\* closing message is the warning and the number of analysed records is 0.
C14_AllFailedCompletes ==
    AllCallsFailed =>
        /\ pc = "done"
        /\ \A k \in DOMAIN outcome : outcome[k] = "Failed"
        /\ results = <<>>
        /\ summary = [kind |-> "warning", analyzed |-> 0, total |-> 0]

C14_Witness ==
    /\ AllCallsFailed
    /\ N = 3
    /\ pc = "done"
    /\ summary.kind = "warning"
    /\ Len(results) = 0

\* C15 as stated: a row made from a response with the nested mapping
\* details.sentiment.score has the key details_sentiment_score holding the
\* leaf's value, and no key holding the nested mapping as one value.
C15_NestedKeysJoined ==
    pc = "done" =>
        \A i \in DOMAIN origin :
            received[origin[i]] = NestedText =>
                /\ "details_sentiment_score" \in session_results.columns
                /\ session_results.rows[i]["details_sentiment_score"] = Str("5")
                /\ "details" \notin session_results.columns

(***************************************************************************)
(* flatten_dict on its own: nested mappings are built entry by entry and   *)
(* handed to flatten_dict.                                                 *)
(***************************************************************************)
MaxDepth == 2
MaxWidth == 2

\* the keys given a leaf value
FlattenKeys == {"b", "a_b"}

\* the key under which a mapping is nested
ParentKeys == {"a"}

RECURSIVE Depth(_)
Depth(d) ==
    IF d = <<>> THEN 0
    ELSE LET here == IF d[1][2].t = "dict" THEN 1 + Depth(d[1][2].m) ELSE 0
             rest == Depth(Tail(d))
         IN IF here > rest THEN here ELSE rest

\* d[k] = v for a new key k and a leaf value v
PutLeaf(k) ==
    /\ Len(nested) < MaxWidth
    /\ k \notin Keys(nested)
    /\ nested' = Append(nested, <<k, Num(Len(nested) + 1)>>)
    /\ flat' = NotFlattened
    /\ UNCHANGED mainVars

\* the mapping becomes the value of key k in a new mapping
Nest(k) ==
    /\ Depth(nested) < MaxDepth
    /\ nested' = << <<k, Dict(nested)>> >>
    /\ flat' = NotFlattened
    /\ UNCHANGED mainVars

\* the same mapping with its keys in another order
Rotate ==
    /\ Len(nested) >= 2
    /\ nested' = Append(Tail(nested), Head(nested))
    /\ UNCHANGED <<flat, mainVars>>

\* flatten_dict(d), and flatten_dict of its result
Flatten ==
    /\ LET once == flatten_dict(nested, "", "_")
       IN flat' = [done |-> TRUE, of |-> nested, once |-> once,
                   twice |-> flatten_dict(once, "", "_")]
    /\ UNCHANGED <<nested, mainVars>>

FlattenNext ==
    \/ \E k \in FlattenKeys : PutLeaf(k)
    \/ \E k \in ParentKeys : Nest(k)
    \/ Rotate
    \/ Flatten

FlattenSpec == Init /\ [][FlattenNext]_vars

\* The '_'-joined paths to the leaves of a nested mapping, as a set.
RECURSIVE LeafPaths(_, _)
LeafPaths(d, prefix) ==
    UNION { LET key == IF prefix # "" THEN prefix \o "_" \o d[i][1] ELSE d[i][1]
            IN IF d[i][2].t = "dict" THEN LeafPaths(d[i][2].m, key) ELSE {key}
            : i \in DOMAIN d }

\* Two dicts with the same items, whatever their order.
SameItems(a, b) == {a[i] : i \in DOMAIN a} = {b[i] : i \in DOMAIN b}

\* C16: flattening the result of flatten_dict gives that result again, the
\* result has no mapping among its values, and its key set is the set of
\* joined leaf paths, the same for every order in which the keys of the
\* mapping are visited.
C16_FlattenIdempotent ==
    flat.done =>
        /\ flat.twice = flat.once
        /\ \A i \in DOMAIN flat.once : flat.once[i][2].t # "dict"
        /\ Keys(flat.once) = LeafPaths(flat.of, "")
        /\ SameItems(flat.of, nested) =>
              Keys(flatten_dict(nested, "", "_")) = Keys(flat.once)

C16_Witness ==
    /\ flat.done
    /\ flat.of = << <<"a", Dict(<< <<"b", Num(1)>> >>)>>, <<"a_b", Num(2)>> >>
    /\ flat.once = << <<"a_b", Num(2)>> >>
    /\ nested = << <<"a_b", Num(2)>>, <<"a", Dict(<< <<"b", Num(1)>> >>)>> >>

\* C17: every cell of the stored table is a string: a list value is joined
\* with ', ', another non-string value is stringified, a key the row lacked
\* holds the empty string; no cell is a list or a mapping, whatever mix of
\* Succeeded and Degraded rows the table was made from.
C17_CellsAreStrings ==
    /\ session_results # None =>
          \A i \in DOMAIN session_results.rows :
              \A c \in session_results.columns :
                  session_results.rows[i][c].t = "str"
    /\ pc = "done" =>
          \A i \in DOMAIN origin :
              LET row == session_results.rows[i]
                  own == Keys(results[i].m)
              IN /\ \A c \in session_results.columns \ own : row[c] = Str("")
                 /\ received[origin[i]] = NestedText =>
                       /\ row["x"] = Str("a")
                       /\ row["y"] = Str("p, q")
                 /\ received[origin[i]] = TitleScoreText =>
                       row["title_score"] = Str("8")
                 /\ received[origin[i]] = "not json" =>
                       row["raw_content"] = Str("not json")

C17_Witness ==
    /\ pc = "done"
    /\ N = 3
    /\ received = <<NestedText, "not json", TitleScoreText>>
    /\ session_results.rows[1]["y"] = Str("p, q")
    /\ session_results.rows[2]["y"] = Str("")
    /\ session_results.rows[3]["title_score"] = Str("8")

ReturnedRecords == {k \in DOMAIN outcome : outcome[k] \in {"Succeeded", "Degraded"}}

\* C18: at every point of the loop the accumulated results are, in input
\* order, the analyses of exactly the records whose call returned so far
\* (Succeeded or Degraded), with no entry for a Failed record; the closing
\* message of a finished batch reports len(results) = succeeded + degraded
\* = N - failed out of N.
C18_ResultsAreReturnedRecords ==
    /\ Len(results) = Len(origin)
    /\ \A i, j \in DOMAIN origin : i < j => origin[i] < origin[j]
    /\ {origin[i] : i \in DOMAIN origin} = ReturnedRecords
    /\ \A i \in DOMAIN origin :
          /\ origin[i] <= index + 1
          /\ results[i] # None
    /\ (pc = "done" /\ summary.kind = "success") =>
          /\ summary.analyzed = Cardinality(ReturnedRecords)
          /\ summary.analyzed = N - Cardinality(FailedRecords)
          /\ summary.total = N
    /\ (pc = "done" /\ summary.kind = "warning") => ReturnedRecords = {}

C18_Witness ==
    /\ pc = "call"
    /\ N = 3
    /\ index = 2
    /\ outcome[1] = "Degraded"
    /\ outcome[2] = "Failed"
    /\ origin = <<1>>

\* C19: once a batch has finished, the table displayed and offered for
\* download, and the table held by the session, are the normalisation of
\* that batch's own results; a batch that produced no result leaves nothing
\* of an earlier batch displayed or held.
C19_SessionHoldsThisBatchOnly ==
    pc = "done" =>
        /\ displayed = (IF results # <<>> THEN NormalizeResults(results) ELSE None)
        /\ session_results = displayed

====
